---- MODULE Spec2Model ----
(***************************************************************************)
(* State-machine model of the Gemini File Search question-answering        *)
(* adapter (app/engines/gemini_engine.py, app/engines/base.py), of the     *)
(* configuration loader (app/utils/config_loader.py) and of the citation   *)
(* extraction of GeminiEngine._extract_sources.                            *)
(*                                                                         *)
(*   Spec        the engine adapter, the pointer file on disk, the provider *)
(*   SpecOwn     the same, the adapter being the only writer of the file    *)
(*   SpecConfig  the configuration loader and the configuration directory   *)
(*   SpecSources _extract_sources applied to provider responses             *)
(***************************************************************************)
EXTENDS Integers, Sequences, FiniteSets, TLC

\* ------------------------------------------------------------------ bounds
MaxFiles == 2   \* most *.txt files the data directory holds
MaxChunks == 2  \* most grounding chunks of a response

\* ------------------------------------------------- Python / JSON values
\* A value of a dynamically typed field, as one record shape:
\*   t = "missing" (key not in the dict), "none" (None / null),
\*       "str" (s holds it), "num" (n holds it).
Missing == [t |-> "missing", s |-> "", n |-> 0]
NoneV   == [t |-> "none", s |-> "", n |-> 0]
Str(x)  == [t |-> "str", s |-> x, n |-> 0]
Num(k)  == [t |-> "num", s |-> "", n |-> k]

\* dict.get(key, default)
Get(v, d) == IF v.t = "missing" THEN d ELSE v

\* dict.get(key): the default is None
GetNone(v) == Get(v, NoneV)

\* Python truth value of v, as `not v` and `if v` compute it
Truthy(v) ==
    CASE v.t = "str" -> v.s # ""
      [] v.t = "num" -> v.n # 0
      [] OTHER -> FALSE

\* Names the provider gives to the stores it creates (file_search_store.name)
StoreNames == {"stores/a", "stores/b"}

\* --------------------------------------------------- the pointer file
\* data/gemini_corpus/store_info.json as the readers see it:
\*   kind "absent"    the file does not exist
\*        "empty"     it exists with no bytes (just truncated by open(.., 'w'))
\*        "partial"   it holds the beginning of a JSON document
\*        "nonobject" it holds JSON that is not an object (a list, a number)
\*        "object"    it holds a JSON object with the fields below
NoFile == [kind |-> "absent", store_resource_name |-> Missing,
           created_at |-> Missing, total_files |-> Missing, files |-> <<>>]
Damaged(k) == [NoFile EXCEPT !.kind = k]

\* What an operator or another process may leave in the file: any of the
\* damaged kinds, or an object with present, absent or wrongly typed fields.
NameValues  == {Missing, NoneV, Str(""), Num(7)} \cup {Str(x) : x \in StoreNames}
TimeValues  == {Missing, Num(1), Str("yesterday")}
CountValues == {Missing, Num(1), Str("many")}
ForeignFiles ==
    {Damaged(k) : k \in {"absent", "empty", "partial", "nonobject"}}
    \cup [kind : {"object"}, store_resource_name : NameValues,
          created_at : TimeValues, total_files : CountValues, files : {<<>>}]

\* json.load(f): raises (FALSE) unless the text is a complete JSON document
JsonLoads(f) == f.kind \in {"nonobject", "object"}

\* info_data.get(..) raises AttributeError unless info_data is a dict
IsDict(f) == f.kind = "object"

VARIABLES
    initialized,           \* RAGEngine._initialized
    store_resource_name,   \* GeminiEngine.store_resource_name
    file,                  \* data/gemini_corpus/store_info.json
    pc,                    \* position of build_index: idle, upload, import, save, dump
    txt_files,             \* build_index: len(txt_files), the files being 1..txt_files
    idx,                   \* build_index: the loop index i of the running pass
    uploaded_files,        \* build_index: uploaded_files (the files' numbers)
    import_count,          \* build_index: import_count
    events,                \* provider calls and pointer writes of the running or last operation
    succeeded,             \* history: a build_index or load_corpus_info succeeded
    ret,                   \* outcome of the last completed operation
    _config_loader_instance, \* config_loader: TRUE once the singleton exists
    _configs,              \* ConfigLoader._configs of the singleton
    config_dir,            \* the files of the configuration directory
    cfg_ret,               \* outcome of the last ConfigLoader call
    response,              \* the provider response given to _extract_sources
    sources,               \* the list _extract_sources returned
    extracted              \* _extract_sources has returned

avars == <<initialized, store_resource_name, file, pc, txt_files, idx,
           uploaded_files, import_count, events, succeeded, ret>>
cvars == <<_config_loader_instance, _configs, config_dir, cfg_ret>>
svars == <<response, sources, extracted>>
vars == <<avars, cvars, svars>>

locals == <<txt_files, idx, uploaded_files, import_count>>

\* One provider call (create, upload, import, generate) or pointer write (save):
\* which, the file it was about (0: none), whether it succeeded; error is the
\* exception a generate_content call raised ("": none recorded)
Call(c, f, ok) == [call |-> c, f |-> f, ok |-> ok, error |-> ""]

\* Outcome of an operation: which one, whether it raised, its boolean result
\* (load_corpus_info's return, get_index_info's 'exists'), and the
\* store_resource_name and total_files it reported; error is the exception
\* query raised to its caller ("": none recorded).
Ret(op, raised, ok, name, total) ==
    [op |-> op, raised |-> raised, ok |-> ok, name |-> name, total |-> total,
     error |-> ""]

\* The call or outcome r, with the exception e it raised
Raised(r, e) == [r EXCEPT !.error = e]

\* Exceptions generate_content raises
ProviderErrors == {"ClientError", "ServerError"}
NoRet == Ret("none", FALSE, FALSE, NoneV, NoneV)

\* RAGEngine.__init__ and GeminiEngine.__init__; the pointer file is one of
\* `pointers`, what the deployment holds.
NewEngine(pointers) ==
    /\ initialized = FALSE
    /\ store_resource_name = NoneV
    /\ file \in pointers
    /\ pc = "idle"
    /\ txt_files = 0
    /\ idx = 0
    /\ uploaded_files = <<>>
    /\ import_count = 0
    /\ events = <<>>
    /\ succeeded = FALSE
    /\ ret = NoRet

\* The locals of build_index before it assigns them. They keep their last
\* values after a run, until the next build_index or a new adapter.
LocalsGone ==
    /\ txt_files' = 0
    /\ idx' = 0
    /\ uploaded_files' = <<>>
    /\ import_count' = 0

\* ------------------------------------------------------------ query
\* (variant: the _initialized guard is missing)
QueryRefused_NameOnly == ~Truthy(store_resource_name)

\* The two guards at the head of query: either raises RuntimeError
QueryRefused == ~initialized \/ ~Truthy(store_resource_name)

\* (variant: a failed generate_content call is tried once more)
query_Retry ==
    /\ pc = "idle"
    /\ IF QueryRefused
       THEN /\ ret' = Raised(Ret("query", TRUE, FALSE, store_resource_name, NoneV),
                             "RuntimeError")
            /\ events' = <<>>
       ELSE \/ /\ events' = <<Call("generate", 0, TRUE)>>
               /\ ret' = Ret("query", FALSE, TRUE, store_resource_name, NoneV)
            \/ \E e1 \in ProviderErrors :
               \/ /\ events' = <<Raised(Call("generate", 0, FALSE), e1),
                                 Call("generate", 0, TRUE)>>
                  /\ ret' = Ret("query", FALSE, TRUE, store_resource_name, NoneV)
               \/ \E e2 \in ProviderErrors :
                  /\ events' = <<Raised(Call("generate", 0, FALSE), e1),
                                 Raised(Call("generate", 0, FALSE), e2)>>
                  /\ ret' = Raised(Ret("query", TRUE, FALSE, store_resource_name,
                                       NoneV), e2)
    /\ UNCHANGED <<initialized, store_resource_name, file, pc, locals, succeeded>>
    /\ UNCHANGED <<cvars, svars>>

\* query(question): refused with a RuntimeError, or one generate_content call
\* that returns a response or raises; the exception is logged and re-raised.
query ==
    /\ pc = "idle"
    /\ IF QueryRefused
       THEN /\ ret' = Raised(Ret("query", TRUE, FALSE, store_resource_name, NoneV),
                             "RuntimeError")
            /\ events' = <<>>
       ELSE \/ /\ events' = <<Call("generate", 0, TRUE)>>
               /\ ret' = Ret("query", FALSE, TRUE, store_resource_name, NoneV)
            \/ \E e \in ProviderErrors :
               /\ events' = <<Raised(Call("generate", 0, FALSE), e)>>
               /\ ret' = Raised(Ret("query", TRUE, FALSE, store_resource_name,
                                    NoneV), e)
    /\ UNCHANGED <<initialized, store_resource_name, file, pc, locals, succeeded>>
    /\ UNCHANGED <<cvars, svars>>

\* ------------------------------------------------- load_corpus_info
\* (variant: the default of get_index_info is used for a missing key)
LoadedName_Default(f) == Get(f.store_resource_name, Str("unknown"))

\* self.store_resource_name = info_data.get('store_resource_name')
LoadedName(f) == GetNone(f.store_resource_name)

\* json.load and info_data.get inside the try: an exception leaves the
\* adapter as it was
LoadReads(f) == JsonLoads(f) /\ IsDict(f)

load_corpus_info ==
    /\ pc = "idle"
    /\ events' = <<>>
    /\ IF file.kind = "absent" \/ ~LoadReads(file)
       THEN /\ ret' = Ret("load_corpus_info", FALSE, FALSE, store_resource_name, NoneV)
            /\ UNCHANGED <<initialized, store_resource_name, succeeded>>
       ELSE /\ store_resource_name' = LoadedName(file)
            /\ IF ~Truthy(LoadedName(file))
               THEN /\ ret' = Ret("load_corpus_info", FALSE, FALSE, LoadedName(file), NoneV)
                    /\ UNCHANGED <<initialized, succeeded>>
               ELSE /\ initialized' = TRUE
                    /\ succeeded' = TRUE
                    /\ ret' = Ret("load_corpus_info", FALSE, TRUE, LoadedName(file),
                                  Get(file.total_files, Num(0)))
    /\ UNCHANGED <<file, pc, locals>>
    /\ UNCHANGED <<cvars, svars>>

\* --------------------------------------------------- get_index_info
\* age_hours = (current_time - created_at) / 3600 raises TypeError unless
\* created_at is a number
AgeComputes(f) == Get(f.created_at, Num(0)).t = "num"

\* The try block of get_index_info runs to its return
InfoReads(f) == JsonLoads(f) /\ IsDict(f) /\ AgeComputes(f)

\* The 'exists' the result carries
InfoExists(f) == f.kind # "absent" /\ InfoReads(f)

\* (variant: no try/except, a failed read propagates)
get_index_info_NoCatch ==
    /\ pc = "idle"
    /\ events' = <<>>
    /\ ret' = IF InfoExists(file)
              THEN Ret("get_index_info", FALSE, TRUE,
                       Get(file.store_resource_name, Str("unknown")),
                       Get(file.total_files, Num(0)))
              ELSE Ret("get_index_info", file.kind # "absent", FALSE, NoneV, NoneV)
    /\ UNCHANGED <<initialized, store_resource_name, file, pc, locals, succeeded>>
    /\ UNCHANGED <<cvars, svars>>

\* get_index_info(): Path.exists, then the try block, then the except block.
\* The default of store_resource_name is the string for "unknown".
get_index_info ==
    /\ pc = "idle"
    /\ events' = <<>>
    /\ ret' = IF InfoExists(file)
              THEN Ret("get_index_info", FALSE, TRUE,
                       Get(file.store_resource_name, Str("unknown")),
                       Get(file.total_files, Num(0)))
              ELSE Ret("get_index_info", FALSE, FALSE, NoneV, NoneV)
    /\ UNCHANGED <<initialized, store_resource_name, file, pc, locals, succeeded>>
    /\ UNCHANGED <<cvars, svars>>

\* ------------------------------------------------------ build_index
\* (variant: the name is written under the key 'store_name')
_save_store_info_OtherKey(name, uploaded) ==
    [kind |-> "object", store_resource_name |-> Missing, created_at |-> Num(1),
     total_files |-> Num(Len(uploaded)), files |-> uploaded]

\* info_data of _save_store_info as json.dump writes it; created_at is the
\* clock's number.
_save_store_info(name, uploaded) ==
    [kind |-> "object", store_resource_name |-> name, created_at |-> Num(1),
     total_files |-> Num(Len(uploaded)), files |-> uploaded]

\* build_index raises: the except block logs and re-raises
BuildRaises ==
    /\ pc' = "idle"
    /\ ret' = Ret("build_index", TRUE, FALSE, NoneV, NoneV)

\* Step 1: file_search_stores.create, then the glob of the data directory
build_create ==
    /\ pc = "idle"
    /\ \/ /\ events' = <<Call("create", 0, FALSE)>>
          /\ BuildRaises
          /\ LocalsGone
          /\ UNCHANGED <<initialized, store_resource_name, file, succeeded>>
       \/ \E name \in StoreNames, n \in 0 .. MaxFiles :
          /\ events' = <<Call("create", 0, TRUE)>>
          /\ store_resource_name' = Str(name)
          /\ txt_files' = n
          /\ idx' = 1
          /\ uploaded_files' = <<>>
          /\ import_count' = 0
          /\ pc' = "upload"
          /\ ret' = NoRet
          /\ UNCHANGED <<initialized, file, succeeded>>
    /\ UNCHANGED <<cvars, svars>>

\* (variant: no try/except around the upload, a failure ends build_index)
build_upload_Aborts ==
    /\ pc = "upload"
    /\ idx <= txt_files
    /\ \E ok \in BOOLEAN :
         /\ events' = Append(events, Call("upload", idx, ok))
         /\ uploaded_files' = IF ok THEN Append(uploaded_files, idx) ELSE uploaded_files
         /\ IF ok THEN UNCHANGED <<pc, ret>> ELSE BuildRaises
    /\ idx' = idx + 1
    /\ UNCHANGED <<initialized, store_resource_name, file, txt_files,
                   import_count, succeeded>>
    /\ UNCHANGED <<cvars, svars>>

\* Step 2a, one turn of the loop: files.upload of file idx; a failure is logged
build_upload ==
    /\ pc = "upload"
    /\ idx <= txt_files
    /\ \E ok \in BOOLEAN :
         /\ events' = Append(events, Call("upload", idx, ok))
         /\ uploaded_files' = IF ok THEN Append(uploaded_files, idx) ELSE uploaded_files
    /\ idx' = idx + 1
    /\ UNCHANGED <<initialized, store_resource_name, file, pc, txt_files,
                   import_count, succeeded, ret>>
    /\ UNCHANGED <<cvars, svars>>

\* (variant: the upload loop stops one file early)
build_upload_done_Early ==
    /\ pc = "upload"
    /\ idx >= txt_files
    /\ pc' = "import"
    /\ idx' = 1
    /\ import_count' = 0
    /\ UNCHANGED <<initialized, store_resource_name, file, txt_files,
                   uploaded_files, events, succeeded, ret>>
    /\ UNCHANGED <<cvars, svars>>

\* The upload loop is exhausted: the import pass starts
build_upload_done ==
    /\ pc = "upload"
    /\ idx > txt_files
    /\ pc' = "import"
    /\ idx' = 1
    /\ import_count' = 0
    /\ UNCHANGED <<initialized, store_resource_name, file, txt_files,
                   uploaded_files, events, succeeded, ret>>
    /\ UNCHANGED <<cvars, svars>>

\* Step 2b, one turn of the loop: import_file of uploaded_files[idx]
build_import ==
    /\ pc = "import"
    /\ idx <= Len(uploaded_files)
    /\ \E ok \in BOOLEAN :
         /\ events' = Append(events, Call("import", uploaded_files[idx], ok))
         /\ import_count' = IF ok THEN import_count + 1 ELSE import_count
    /\ idx' = idx + 1
    /\ UNCHANGED <<initialized, store_resource_name, file, pc, txt_files,
                   uploaded_files, succeeded, ret>>
    /\ UNCHANGED <<cvars, svars>>

\* The import loop is exhausted: _save_store_info is called
build_import_done ==
    /\ pc = "import"
    /\ idx > Len(uploaded_files)
    /\ pc' = "save"
    /\ UNCHANGED <<initialized, store_resource_name, file, txt_files, idx,
                   uploaded_files, import_count, events, succeeded, ret>>
    /\ UNCHANGED <<cvars, svars>>

\* What open(info_file, 'w') leaves of the file before anything is written
Opened(f) == Damaged("empty")

\* _save_store_info: mkdir and open(info_file, 'w'); either may raise and
\* leave the file alone, and open truncates the file.
save_open ==
    /\ pc = "save"
    /\ \/ /\ BuildRaises
          /\ events' = Append(events, Call("save", 0, FALSE))
          /\ UNCHANGED file
       \/ /\ file' = Opened(file)
          /\ pc' = "dump"
          /\ UNCHANGED <<events, ret>>
    /\ UNCHANGED <<initialized, store_resource_name, locals, succeeded>>
    /\ UNCHANGED <<cvars, svars>>

\* _save_store_info: json.dump and the close of the file, then
\* self._initialized = True. A failed write leaves what reached the disk.
save_dump ==
    /\ pc = "dump"
    /\ \/ /\ \E k \in {"empty", "partial"} : file' = Damaged(k)
          /\ events' = Append(events, Call("save", 0, FALSE))
          /\ BuildRaises
          /\ UNCHANGED <<initialized, succeeded>>
       \/ /\ file' = _save_store_info(store_resource_name, uploaded_files)
          /\ events' = Append(events, Call("save", 0, TRUE))
          /\ initialized' = TRUE
          /\ succeeded' = TRUE
          /\ pc' = "idle"
          /\ ret' = Ret("build_index", FALSE, TRUE, store_resource_name,
                        Num(Len(uploaded_files)))
    /\ UNCHANGED <<store_resource_name, locals>>
    /\ UNCHANGED <<cvars, svars>>

\* ------------------------------------------------------ environment
\* The pointer file is replaced from outside the adapter (a deployment, an
\* operator, another process) while no operation runs.
replace_file ==
    /\ pc = "idle"
    /\ file' \in ForeignFiles \ {file}
    /\ events' = <<>>
    /\ ret' = NoRet
    /\ UNCHANGED <<initialized, store_resource_name, pc, locals, succeeded>>
    /\ UNCHANGED <<cvars, svars>>

\* The process stops at any point and a new adapter is constructed
restart ==
    /\ initialized' = FALSE
    /\ store_resource_name' = NoneV
    /\ pc' = "idle"
    /\ LocalsGone
    /\ events' = <<>>
    /\ succeeded' = FALSE
    /\ ret' = NoRet
    /\ UNCHANGED file
    /\ UNCHANGED <<cvars, svars>>

\* ---------------------------------------------------- ConfigLoader
\* The files load_all_configs names; the loader is asked for these
ConfigFiles == {"config.yaml", "gemini_config.yaml", "llamaindex_config.yaml"}

\* The order load_all_configs takes them in
config_files == <<"config.yaml", "gemini_config.yaml", "llamaindex_config.yaml">>

\* What a file of the directory holds: nothing ("absent": no such file),
\* text that is not YAML ("invalid"), or one of two YAML texts
FileTexts == {"absent", "invalid", "yaml1", "yaml2"}

\* yaml.safe_load: the mapping a YAML text parses to
safe_load(text) == IF text = "yaml1" THEN "doc1" ELSE "doc2"

\* Outcome of a ConfigLoader call: which one, for which name, whether it
\* raised, the mapping returned ("none": none), how often it opened a file
CfgRet(op, name, raised, value, reads) ==
    [op |-> op, name |-> name, raised |-> raised, value |-> value, reads |-> reads]

\* No loader yet, nothing cached ("unloaded": the name is not in _configs);
\* the directory is one of `dirs`
NewLoader(dirs) ==
    /\ _config_loader_instance = FALSE
    /\ _configs = [n \in ConfigFiles |-> "unloaded"]
    /\ config_dir \in dirs
    /\ cfg_ret = CfgRet("none", "", FALSE, "none", 0)

\* get_config_loader(): the singleton is created on first use
get_config_loader ==
    /\ IF _config_loader_instance
       THEN UNCHANGED _configs
       ELSE _configs' = [n \in ConfigFiles |-> "unloaded"]
    /\ _config_loader_instance' = TRUE
    /\ cfg_ret' = CfgRet("get_config_loader", "", FALSE, "none", 0)
    /\ UNCHANGED <<config_dir, avars, svars>>

\* The body of load_config, called by `op`: FileNotFoundError when the file
\* does not exist, else the file is opened and parsed (a YAML error
\* propagates), stored under its name and returned.
LoadFile(op, n) ==
    IF config_dir[n] = "absent"
    THEN /\ cfg_ret' = CfgRet(op, n, TRUE, "none", 0)
         /\ UNCHANGED _configs
    ELSE IF config_dir[n] = "invalid"
    THEN /\ cfg_ret' = CfgRet(op, n, TRUE, "none", 1)
         /\ UNCHANGED _configs
    ELSE /\ _configs' = [_configs EXCEPT ![n] = safe_load(config_dir[n])]
         /\ cfg_ret' = CfgRet(op, n, FALSE, safe_load(config_dir[n]), 1)

\* load_config(config_file)
load_config(n) ==
    /\ _config_loader_instance
    /\ LoadFile("load_config", n)
    /\ UNCHANGED <<_config_loader_instance, config_dir, avars, svars>>

\* (variant: no look at _configs, the file is always loaded)
get_config_NoCache(n) ==
    /\ _config_loader_instance
    /\ LoadFile("get_config", n)
    /\ UNCHANGED <<_config_loader_instance, config_dir, avars, svars>>

\* get_config(config_name): load_config when the name is not in _configs
get_config(n) ==
    /\ _config_loader_instance
    /\ IF _configs[n] = "unloaded"
       THEN LoadFile("get_config", n)
       ELSE /\ cfg_ret' = CfgRet("get_config", n, FALSE, _configs[n], 0)
            /\ UNCHANGED _configs
    /\ UNCHANGED <<_config_loader_instance, config_dir, avars, svars>>

\* load_all_configs from file i on, c being _configs and r the files opened
\* so far: a missing file is reported and skipped, a YAML error ends the call.
RECURSIVE LoadAll(_, _, _)
LoadAll(i, c, r) ==
    IF i > Len(config_files)
    THEN [configs |-> c, raised |-> FALSE, reads |-> r]
    ELSE LET n == config_files[i] IN
         IF config_dir[n] = "absent" THEN LoadAll(i + 1, c, r)
         ELSE IF config_dir[n] = "invalid"
         THEN [configs |-> c, raised |-> TRUE, reads |-> r + 1]
         ELSE LoadAll(i + 1, [c EXCEPT ![n] = safe_load(config_dir[n])], r + 1)

\* load_all_configs()
load_all_configs ==
    /\ _config_loader_instance
    /\ LET out == LoadAll(1, _configs, 0) IN
         /\ _configs' = out.configs
         /\ cfg_ret' = CfgRet("load_all_configs", "", out.raised, "none", out.reads)
    /\ UNCHANGED <<_config_loader_instance, config_dir, avars, svars>>

\* A file of the directory is written, replaced or removed from outside
edit_config ==
    /\ \E n \in ConfigFiles, text \in FileTexts :
         /\ text # config_dir[n]
         /\ config_dir' = [config_dir EXCEPT ![n] = text]
    /\ cfg_ret' = CfgRet("none", "", FALSE, "none", 0)
    /\ UNCHANGED <<_config_loader_instance, _configs, avars, svars>>

NextConfig ==
    \/ get_config_loader
    \/ \E n \in ConfigFiles : load_config(n)
    \/ \E n \in ConfigFiles : get_config(n)
    \/ load_all_configs
    \/ edit_config

\* ------------------------------------------------- _extract_sources
\* A grounding chunk as _extract_sources probes it:
\*   ctx    "noattr"  the chunk has no attribute retrieved_context
\*          "none"    the attribute is there and is None
\*          "payload" it is a context with title, uri and text
\*   title  the context's title ("": no attribute, None or empty)
\*   uri    the context's uri as its segments between '/' (<<>>: none)
\*   text   the length of the context's text (0: none)
\*   score  "noattr" the chunk has no attribute score, "bad" float() raises
\*          on it (None, text), "num" it is the number score_n (in hundredths)
Chunk(ctx, title, uri, text, score, n) ==
    [ctx |-> ctx, title |-> title, uri |-> uri, text |-> text,
     score |-> score, score_n |-> n]

Scores == {<<"noattr", 0>>, <<"bad", 0>>, <<"num", 50>>}
ChunkKinds ==
    {Chunk(c, "", <<>>, 0, sc[1], sc[2]) : c \in {"noattr", "none"}, sc \in Scores}
    \cup {Chunk("payload", t, u, x, sc[1], sc[2]) :
            t \in {"", "A.txt"}, u \in {<<>>, <<"files", "b.txt">>},
            x \in {0, 5, 600}, sc \in Scores}

\* Sequences over S of length at most n
RECURSIVE SeqsUpTo(_, _)
SeqsUpTo(S, n) ==
    IF n = 0 THEN {<<>>}
    ELSE SeqsUpTo(S, n - 1)
         \cup {Append(q, x) : q \in {r \in SeqsUpTo(S, n - 1) : Len(r) = n - 1}, x \in S}

\* A response: how far its structure goes, and its grounding chunks
\*   "no_candidates"   no attribute candidates, or an empty list
\*   "candidates_none" candidates is None: len() raises
\*   "no_metadata"     candidates[0] has no grounding_metadata, or None
\*   "no_chunks"       the metadata has no grounding_chunks, None or empty
\*   "chunks"          the metadata has the grounding chunks `chunks`
Shapes == {"no_candidates", "candidates_none", "no_metadata", "no_chunks"}
Responses ==
    {[shape |-> sh, chunks |-> <<>>] : sh \in Shapes}
    \cup {[shape |-> "chunks", chunks |-> q] :
            q \in SeqsUpTo(ChunkKinds, MaxChunks) \ {<<>>}}

\* context.text[:500]
SnippetLimit == 500

\* score = 1.0, in hundredths
DefaultScore == 100

\* filename: the title, else the last segment of the uri, else the
\* placeholder (the source's string for "unknown file")
Filename(c) ==
    IF c.ctx = "payload" /\ c.title # "" THEN c.title
    ELSE IF c.ctx = "payload" /\ c.uri # <<>> THEN c.uri[Len(c.uri)]
    ELSE "unknown file"

\* snippet: the first 500 characters of the text, as a length
Snippet(c) ==
    IF c.ctx = "payload" /\ c.text > 0
    THEN (IF c.text < SnippetLimit THEN c.text ELSE SnippetLimit)
    ELSE 0

\* Source(filename, snippet, score, metadata = {type, index})
Source(c, i) ==
    [filename |-> Filename(c), snippet |-> Snippet(c),
     score |-> IF c.score = "num" THEN c.score_n ELSE DefaultScore,
     index |-> i]

\* The chunk passes `if hasattr(chunk, 'retrieved_context')`
HasContext(c) == c.ctx # "noattr"

\* The loop over enumerate(grounding_chunks) from position i (1-based here,
\* the index it records is 0-based): float(chunk.score) raising ends the
\* loop in the except block, with the sources appended so far.
RECURSIVE ChunkLoop(_, _, _)
ChunkLoop(chunks, i, acc) ==
    IF i > Len(chunks) THEN acc
    ELSE IF ~HasContext(chunks[i]) THEN ChunkLoop(chunks, i + 1, acc)
    ELSE IF chunks[i].score = "bad" THEN acc
    ELSE ChunkLoop(chunks, i + 1, Append(acc, Source(chunks[i], i - 1)))

\* _extract_sources(response); the grounding_supports loop adds nothing
_extract_sources(r) ==
    IF r.shape = "chunks" THEN ChunkLoop(r.chunks, 1, <<>>) ELSE <<>>

\* No response at hand
NoResponse(rs) ==
    /\ response \in rs
    /\ sources = <<>>
    /\ extracted = FALSE

\* query hands the provider's response to _extract_sources
extract_sources ==
    /\ ~extracted
    /\ sources' = _extract_sources(response)
    /\ extracted' = TRUE
    /\ UNCHANGED <<response, avars, cvars>>

NextSources ==
    \/ extract_sources

Next ==
    \/ query
    \/ load_corpus_info
    \/ get_index_info
    \/ build_create
    \/ build_upload
    \/ build_upload_done
    \/ build_import
    \/ build_import_done
    \/ save_open
    \/ save_dump
    \/ replace_file
    \/ restart

\* The engine adapter over every pointer file a deployment may hold
Init ==
    /\ NewEngine(ForeignFiles)
    /\ NewLoader({[n \in ConfigFiles |-> "absent"]})
    /\ NoResponse({[shape |-> "no_candidates", chunks |-> <<>>]})

Spec == Init /\ [][Next]_vars

\* The engine adapter as the only writer of the pointer file: every operation
\* and a new process, and no replacement of the file from outside
NextOwn ==
    \/ query
    \/ load_corpus_info
    \/ get_index_info
    \/ build_create
    \/ build_upload
    \/ build_upload_done
    \/ build_import
    \/ build_import_done
    \/ save_open
    \/ save_dump
    \/ restart

SpecOwn == Init /\ [][NextOwn]_vars

\* The configuration loader over every configuration directory
InitConfig ==
    /\ NewEngine({NoFile})
    /\ NewLoader([ConfigFiles -> FileTexts])
    /\ NoResponse({[shape |-> "no_candidates", chunks |-> <<>>]})

SpecConfig == InitConfig /\ [][NextConfig]_vars

\* _extract_sources over every response
InitSources ==
    /\ NewEngine({NoFile})
    /\ NewLoader({[n \in ConfigFiles |-> "absent"]})
    /\ NoResponse(Responses)

SpecSources == InitSources /\ [][NextSources]_vars

\* ================================================================ claims
\* The calls of events to endpoint c
CallsTo(c) == {i \in 1 .. Len(events) : events[i].call = c}

\* C1: on an adapter on which neither build_index nor load_corpus_info has
\* succeeded, no operation has called generate_content and a query that was
\* made raised, whatever failed operations came before.
C1_NoQueryBeforePointer ==
    ~succeeded =>
        /\ CallsTo("generate") = {}
        /\ ret.op = "query" => (ret.raised /\ events = <<>>)

\* A query was refused on an adapter that a failed build_index left with a
\* store name but not initialized
C1_Witness ==
    /\ ~succeeded
    /\ ret.op = "query"
    /\ Truthy(store_resource_name)

\* C2 (as claimed): after a build_index that returned, the pointer's files
\* list and total_files count the files that were uploaded and imported, and
\* are no more than the files found.
C2_PointerCountsImported ==
    (ret.op = "build_index" /\ ~ret.raised) =>
        /\ Len(file.files) = import_count
        /\ file.total_files = Num(import_count)
        /\ Len(file.files) <= txt_files

\* C3 (as claimed): a query, get_index_info or load_corpus_info call on an
\* adapter whose query is not refused leaves it an adapter whose query is not
\* refused.
C3_StaysInitialized ==
    [][(~QueryRefused /\ (query \/ get_index_info \/ load_corpus_info))
         => ~QueryRefused']_vars

\* C4 (as claimed): every step of the pointer write leaves the file absent,
\* as it was, or the complete new pointer.
C4_AtomicWrite ==
    [][(pc \in {"save", "dump"}) =>
         file' \in {Damaged("absent"), file,
                    _save_store_info(store_resource_name, uploaded_files)}]_vars

\* C5: a build_index that raised failed to create the store or to write the
\* pointer; one that returned attempted the upload of every file found and
\* the import of every uploaded file, wrote the pointer and left the adapter
\* initialized.
C5_BuildTolerant ==
    ret.op = "build_index" =>
        /\ ret.raised => (\E i \in CallsTo("create") \cup CallsTo("save") : ~events[i].ok)
        /\ ~ret.raised =>
             /\ \A f \in 1 .. txt_files :
                  \E i \in CallsTo("upload") : events[i].f = f
             /\ \A j \in 1 .. Len(uploaded_files) :
                  \E i \in CallsTo("import") : events[i].f = uploaded_files[j]
             /\ file = _save_store_info(store_resource_name, uploaded_files)
             /\ initialized

\* A build_index returned although an upload and an import failed
C5_Witness ==
    /\ ret.op = "build_index"
    /\ ~ret.raised
    /\ \E i \in CallsTo("upload") : ~events[i].ok
    /\ \E i \in CallsTo("import") : ~events[i].ok

\* The file carries a store_resource_name that is not empty
CarriesName(f) ==
    /\ f.kind = "object"
    /\ f.store_resource_name.t \notin {"missing", "none"}
    /\ f.store_resource_name # Str("")

\* C6: load_corpus_info returns true exactly when the pointer file exists,
\* parses and carries a non-empty store_resource_name; then the adapter is
\* initialized with the file's store_resource_name; it never calls the
\* provider and never raises.
C6_LoadContract ==
    ret.op = "load_corpus_info" =>
        /\ ret.ok <=> (file.kind # "absent" /\ JsonLoads(file) /\ CarriesName(file))
        /\ ret.ok => (initialized /\ store_resource_name = file.store_resource_name)
        /\ events = <<>>
        /\ ~ret.raised

\* load_corpus_info returned true
C6_Witness ==
    /\ ret.op = "load_corpus_info"
    /\ ret.ok
    /\ store_resource_name \in {Str(x) : x \in StoreNames}

\* A field is present with a value of the wrong type
WronglyTyped(f) ==
    /\ f.kind = "object"
    /\ \/ f.store_resource_name.t \in {"none", "num"}
       \/ f.created_at.t \in {"none", "str"}
       \/ f.total_files.t \in {"none", "str"}

\* C7 (as claimed): get_index_info never raises, and reports exists == False
\* for a missing file, invalid JSON, JSON that is not an object and wrongly
\* typed fields.
C7_CorruptIsNotFound ==
    ret.op = "get_index_info" =>
        /\ ~ret.raised
        /\ (file.kind # "object" \/ WronglyTyped(file)) => ~ret.ok

\* C7 (amended): get_index_info never raises; it reports exists == False
\* exactly for a missing file, invalid JSON, JSON that is not an object and
\* a created_at that is not a number, and otherwise reports the file's
\* total_files and store_resource_name as they are.
C7_ReadErrorIsNotFound ==
    ret.op = "get_index_info" =>
        /\ ~ret.raised
        /\ ~ret.ok <=> (file.kind # "object" \/ file.created_at.t \in {"none", "str"})
        /\ ret.ok => /\ ret.total = Get(file.total_files, Num(0))
                     /\ ret.name = Get(file.store_resource_name, Str("unknown"))

\* get_index_info met a created_at of the wrong type
C7_Witness ==
    /\ ret.op = "get_index_info"
    /\ ~ret.ok
    /\ file.kind = "object"
    /\ file.created_at.t = "str"

\* The uploaded_files lists build_index can pass: increasing file numbers
RECURSIVE UploadLists(_)
UploadLists(n) ==
    IF n = 0 THEN {<<>>}
    ELSE UploadLists(n - 1) \cup {Append(u, n) : u \in UploadLists(n - 1)}

\* C8: when the file is what _save_store_info(name, files) writes, a
\* load_corpus_info returns true and leaves name in the adapter, and a
\* get_index_info reports name and the number of files.
C8_RoundTrip ==
    \A nm \in StoreNames, u \in UploadLists(MaxFiles) :
        file = _save_store_info(Str(nm), u) =>
            /\ ret.op = "load_corpus_info" =>
                 (ret.ok /\ store_resource_name = Str(nm))
            /\ ret.op = "get_index_info" =>
                 (ret.ok /\ ret.name = Str(nm) /\ ret.total = Num(Len(u)))

\* get_index_info read a pointer that build_index wrote for one file or more
C8_Witness ==
    /\ ret.op = "get_index_info"
    /\ file.files # <<>>
    /\ ret.total = Num(Len(file.files))

\* C9 (as claimed): a load_config or get_config for a name that is in
\* _configs opens no file and returns the cached mapping.
C9_RequestsUseCache ==
    [][(\A n \in ConfigFiles :
          (_configs[n] # "unloaded" /\ (load_config(n) \/ get_config(n)))
             => (cfg_ret'.reads = 0 /\ cfg_ret'.value = _configs[n]))]_vars

\* C9 (amended): a get_config for a name that is in _configs opens no file,
\* returns the cached mapping and leaves _configs as it is; a load_config of
\* a file that exists opens it, whatever is cached.
C9_GetConfigUsesCache ==
    [][(\A n \in ConfigFiles :
          /\ (_configs[n] # "unloaded" /\ get_config(n))
               => /\ cfg_ret'.reads = 0
                  /\ cfg_ret'.value = _configs[n]
                  /\ ~cfg_ret'.raised
                  /\ _configs' = _configs
          /\ (load_config(n) /\ config_dir[n] # "absent")
               => cfg_ret'.reads = 1)]_vars

\* get_config returned a cached mapping that the file no longer holds
C9_Witness ==
    /\ cfg_ret.op = "get_config"
    /\ cfg_ret.reads = 0
    /\ ~cfg_ret.raised
    /\ config_dir[cfg_ret.name] \in {"yaml1", "yaml2"}
    /\ cfg_ret.value # safe_load(config_dir[cfg_ret.name])

\* The positions from i on of the chunks that carry a retrieved-context
\* payload, in order
RECURSIVE PayloadPositions(_, _)
PayloadPositions(chunks, i) ==
    IF i > Len(chunks) THEN <<>>
    ELSE IF chunks[i].ctx = "payload"
    THEN <<i>> \o PayloadPositions(chunks, i + 1)
    ELSE PayloadPositions(chunks, i + 1)

\* C10 (as claimed): the citations returned are one for each chunk that
\* carries a retrieved-context payload, in the chunks' order, and none when
\* the response has no grounding chunks.
C10_OneCitationPerPayload ==
    extracted =>
        [j \in 1 .. Len(sources) |-> sources[j].index + 1]
            = PayloadPositions(response.chunks, 1)

\* C11: after a query in which generate_content raised, that call is the only
\* provider call made, query raised the exception the provider raised and
\* returned no response, and the adapter is initialized with the
\* store_resource_name it had.
C11_ProviderErrorReraised ==
    (ret.op = "query" /\ \E i \in CallsTo("generate") : ~events[i].ok) =>
        /\ Len(events) = 1
        /\ ret.raised
        /\ ~ret.ok
        /\ ret.error = events[1].error
        /\ initialized
        /\ store_resource_name = ret.name

\* A query on an initialized adapter raised the provider's exception
C11_Witness ==
    /\ ret.op = "query"
    /\ ret.raised
    /\ ret.error \in ProviderErrors
    /\ events = <<Raised(Call("generate", 0, FALSE), ret.error)>>

\* The files of the calls of events that satisfy Test, in the calls' order
FilesOf(Test(_)) ==
    LET sel == SelectSeq(events, Test)
    IN  [k \in 1 .. Len(sel) |-> sel[k].f]
IsUpload(e) == e.call = "upload"
IsOkUpload(e) == e.call = "upload" /\ e.ok
IsImport(e) == e.call = "import"

\* C12: in the calls of one build_index, no upload follows an import and
\* nothing follows the pointer write; once an import or the write has begun
\* the uploads attempted are those of all files found, in order; the imports
\* attempted are, in order, the first of the files whose upload succeeded,
\* and all of them once the pointer is being written.
C12_PassesInOrder ==
    (events # <<>> /\ events[1].call = "create") =>
        /\ \A i, j \in 1 .. Len(events) :
             i < j => /\ events[i].call = "import" => events[j].call # "upload"
                      /\ events[i].call # "save"
        /\ (CallsTo("import") # {} \/ CallsTo("save") # {} \/ pc = "dump") =>
             FilesOf(IsUpload) = [k \in 1 .. txt_files |-> k]
        /\ Len(FilesOf(IsImport)) <= Len(FilesOf(IsOkUpload))
        /\ \A k \in 1 .. Len(FilesOf(IsImport)) :
             FilesOf(IsImport)[k] = FilesOf(IsOkUpload)[k]
        /\ (CallsTo("save") # {} \/ pc = "dump") =>
             FilesOf(IsImport) = FilesOf(IsOkUpload)

\* A build_index wrote the pointer after a failed upload, a successful
\* upload and the import of the uploaded file
C12_Witness ==
    /\ ret.op = "build_index"
    /\ CallsTo("save") # {}
    /\ \E i \in CallsTo("upload") : ~events[i].ok
    /\ CallsTo("import") # {}

\* C13 (as claimed): whenever no operation is running and the adapter is
\* initialized, the pointer file is an object whose store_resource_name is
\* the adapter's store_resource_name.
C13_MemoryMatchesPointer ==
    (pc = "idle" /\ initialized) =>
        /\ file.kind = "object"
        /\ file.store_resource_name = store_resource_name

\* C14 (as claimed): a load_corpus_info made right after a get_index_info, on
\* the file as get_index_info read it, returns true exactly when
\* get_index_info reported exists == True.
C14_ExistsIffLoads ==
    [][(ret.op = "get_index_info" /\ load_corpus_info) => ret'.ok = ret.ok]_vars
====
